---- MODULE Spec2Model ----
(***************************************************************************)
(* A model of app.py (WerewolfGameApp): the word pool kept in words.txt    *)
(* and words_used.txt, the round built by start_round, and the per-player  *)
(* intro/word screens ending in the reveal screen.                         *)
(*                                                                         *)
(* A Python str is a sequence of one-character strings, a file is its      *)
(* text (with "\n" characters), None is the empty tuple and an int that    *)
(* may be None is a one-element tuple.  The Tk frame is the sequence of    *)
(* the widgets packed into it; a button can be pressed only while it is    *)
(* in the frame.                                                           *)
(***************************************************************************)
EXTENDS Integers, Sequences, FiniteSets, TLC

VARIABLES
    running,               \* "init" before WerewolfGameApp(), "mainloop", "exited" after sys.exit
    words_file_exists,     \* WORDS_FILE.exists()
    words_file,            \* text of words.txt
    words_used_file,       \* text of words_used.txt
    words,                 \* self.words
    player_count,          \* self.player_count: None or <<n>>
    current_player_index,  \* self.current_player_index
    undercover_index,      \* self.undercover_index
    player_words,          \* self.player_words
    current_pair,          \* self.current_pair: None or <<majority, minority>>
    player_phase,          \* self.player_phase
    frame,                 \* the widgets of self.frame, in packing order
    messagebox             \* the dialog the last handler showed, "" if none

vars == <<running, words_file_exists, words_file, words_used_file, words,
          player_count, current_player_index, undercover_index, player_words,
          current_pair, player_phase, frame, messagebox>>

\* ------------------------------------------------------------------ bounds

MaxLines == 2        \* lines of words.txt at startup
MaxPlayers == 3      \* largest player count typed into the entry
MaxEntryLen == 2     \* characters typed into the entry

\* ------------------------------------------------------------ Python values

None == <<>>

Some(n) == <<n>>

Whitespace == {" ", "\n"}

Digits == {"0", "1", "2", "3", "4", "5", "6", "7", "8", "9"}

DigitValue(c) ==
    CASE c = "0" -> 0 [] c = "1" -> 1 [] c = "2" -> 2 [] c = "3" -> 3
      [] c = "4" -> 4 [] c = "5" -> 5 [] c = "6" -> 6 [] c = "7" -> 7
      [] c = "8" -> 8 [] c = "9" -> 9

\* str.strip(): leading and trailing whitespace removed.
RECURSIVE LStrip(_)
LStrip(s) ==
    IF s # <<>> /\ Head(s) \in Whitespace THEN LStrip(Tail(s)) ELSE s

RECURSIVE RStrip(_)
RStrip(s) ==
    IF s # <<>> /\ s[Len(s)] \in Whitespace
    THEN RStrip(SubSeq(s, 1, Len(s) - 1))
    ELSE s

Strip(s) == RStrip(LStrip(s))

\* str.split(sep) for a one-character sep: "a,b," gives ["a", "b", ""].
\* done are the fields already closed, field the one being read.
RECURSIVE SplitFrom(_, _, _, _)
SplitFrom(s, sep, done, field) ==
    IF s = <<>> THEN Append(done, field)
    ELSE IF Head(s) = sep THEN SplitFrom(Tail(s), sep, Append(done, field), <<>>)
    ELSE SplitFrom(Tail(s), sep, done, Append(field, Head(s)))

Split(s, sep) == SplitFrom(s, sep, <<>>, <<>>)

\* str.splitlines() on "\n": a final line break opens no further line.
SplitLines(text) ==
    LET pieces == Split(text, "\n")
    IN  IF pieces[Len(pieces)] = <<>>
        THEN SubSeq(pieces, 1, Len(pieces) - 1)
        ELSE pieces

\* sep.join(items)
RECURSIVE Join(_, _)
Join(sep, items) ==
    IF items = <<>> THEN <<>>
    ELSE IF Len(items) = 1 THEN items[1]
    ELSE items[1] \o sep \o Join(sep, Tail(items))

\* int(raw_value): optional surrounding whitespace, optional sign, digits.
\* None stands for ValueError.
RECURSIVE DigitsValue(_)
DigitsValue(s) ==
    IF s = <<>> THEN 0
    ELSE 10 * DigitsValue(SubSeq(s, 1, Len(s) - 1)) + DigitValue(s[Len(s)])

int(raw_value) ==
    LET s == Strip(raw_value)
        signed == s # <<>> /\ s[1] \in {"+", "-"}
        digits == IF signed THEN Tail(s) ELSE s
    IN  IF digits = <<>> \/ \E i \in 1..Len(digits) : digits[i] \notin Digits
        THEN None
        ELSE IF signed /\ s[1] = "-"
             THEN Some(0 - DigitsValue(digits))
             ELSE Some(DigitsValue(digits))

\* A remove that drops every occurrence of x.
RECURSIVE ListRemoveAll(_, _)
ListRemoveAll(list, x) ==
    IF list = <<>> THEN <<>>
    ELSE IF Head(list) = x THEN ListRemoveAll(Tail(list), x)
    ELSE <<Head(list)>> \o ListRemoveAll(Tail(list), x)

\* list.remove(x): the first occurrence removed; a list without x is left
\* as it is (the caller swallows the ValueError).
RECURSIVE ListRemove(_, _)
ListRemove(list, x) ==
    IF list = <<>> THEN <<>>
    ELSE IF Head(list) = x THEN Tail(list)
    ELSE <<Head(list)>> \o ListRemove(Tail(list), x)

\* ------------------------------------------------------------- the word pool

\* ",".join(pair)
sanitized_line(pair) == Join(<<",">>, pair)

\* [part.strip() for part in line.split(",") if part.strip()]
line_parts(line) ==
    LET fields == Split(line, ",")
        stripped == [i \in 1..Len(fields) |-> Strip(fields[i])]
    IN  SelectSeq(stripped, LAMBDA part : part # <<>>)

\* The loop of load_words over the raw lines of the file.
RECURSIVE parse_lines(_)
parse_lines(raw_lines) ==
    IF raw_lines = <<>> THEN <<>>
    ELSE LET line == Strip(Head(raw_lines))
             rest == parse_lines(Tail(raw_lines))
         IN  IF line = <<>> \/ line[1] = "#" THEN rest
             ELSE LET parts == line_parts(line)
                  IN  IF Len(parts) # 2 THEN rest
                      ELSE <<<<parts[1], parts[2]>>>> \o rest

\* The pairs load_words reads from the text of words.txt.
load_words(text) == parse_lines(SplitLines(text))

\* The loop of mark_word_used matching a raw line by its parsed fields
\* instead of its stripped text.
RECURSIVE new_lines_by_fields(_, _)
new_lines_by_fields(raw_lines, line) ==
    IF raw_lines = <<>> THEN <<>>
    ELSE IF Join(<<",">>, line_parts(Head(raw_lines))) = line
         THEN Tail(raw_lines)
         ELSE <<Head(raw_lines)>> \o new_lines_by_fields(Tail(raw_lines), line)

\* The loop of mark_word_used: the first raw line whose stripped text is the
\* sanitized line is dropped, every other line is kept.
RECURSIVE new_lines(_, _)
new_lines(raw_lines, line) ==
    IF raw_lines = <<>> THEN <<>>
    ELSE IF Strip(Head(raw_lines)) = line THEN Tail(raw_lines)
    ELSE <<Head(raw_lines)>> \o new_lines(Tail(raw_lines), line)

\* "\n".join(new_lines) + ("\n" if new_lines else "")
write_text(lines) ==
    Join(<<"\n">>, lines) \o (IF lines # <<>> THEN <<"\n">> ELSE <<>>)

\* WORDS_FILE.read_text().splitlines(), [] when the file is missing.
read_raw_lines == IF words_file_exists THEN SplitLines(words_file) ELSE <<>>

\* mark_word_used without the removal from self.words.
mark_word_used_files_only(pair) ==
    /\ words_file' = write_text(new_lines(read_raw_lines, sanitized_line(pair)))
    /\ words_file_exists' = TRUE
    /\ words_used_file' = words_used_file \o sanitized_line(pair) \o <<"\n">>
    /\ words' = words

\* mark_word_used writing the used line with the two fields exchanged.
mark_word_used_reversed(pair) ==
    /\ words_file' = write_text(new_lines(read_raw_lines, sanitized_line(pair)))
    /\ words_file_exists' = TRUE
    /\ words_used_file' =
          words_used_file \o sanitized_line(<<pair[2], pair[1]>>) \o <<"\n">>
    /\ words' = ListRemove(words, pair)

mark_word_used(pair) ==
    /\ words_file' = write_text(new_lines(read_raw_lines, sanitized_line(pair)))
    /\ words_file_exists' = TRUE
    /\ words_used_file' = words_used_file \o sanitized_line(pair) \o <<"\n">>
    /\ words' = ListRemove(words, pair)

\* ------------------------------------------------------------------ screens

Widget(kind, text, nums, wds, command) ==
    [kind |-> kind, text |-> text, nums |-> nums, words |-> wds,
     command |-> command]

\* A label: its fixed text, and the numbers and words formatted into it.
Label(text, nums, wds) == Widget("Label", text, nums, wds, "")

Button(text, command) == Widget("Button", text, <<>>, <<>>, command)

Entry == Widget("Entry", "", <<>>, <<>>, "")

ButtonShown(command) ==
    \E i \in 1..Len(frame) :
        frame[i].kind = "Button" /\ frame[i].command = command

start_screen ==
    << Label("title", <<>>, <<>>),
       Label("enter_player_count", <<>>, <<>>),
       Entry,
       Button("start_game", "handle_start") >>

show_player_intro_screen(index) ==
    LET player_number == index + 1
    IN  << Label("player", <<player_number>>, <<>>),
           Label("you_are_player", <<player_number>>, <<>>),
           Label("press_next_to_see_your_word", <<>>, <<>>),
           Button("next_step", "handle_intro_next") >>

\* show_player_word_screen reading the first player's word for everyone.
show_player_word_screen_first_word(fr, count, index, pwords) ==
    LET player_number == index + 1
    IN  IF player_number \notin DOMAIN pwords THEN fr
        ELSE << Label("player", <<player_number>>, <<>>),
                Label("your_word_is", <<>>, <<>>),
                Label("word", <<>>, <<pwords[1]>>),
                Button(IF player_number < count[1]
                       THEN "next_player" ELSE "see_result",
                       "handle_word_next") >>

\* An index outside player_words raises IndexError before clear_frame: Tk
\* reports the exception and the frame stays as it was.
show_player_word_screen(fr, count, index, pwords) ==
    LET player_number == index + 1
    IN  IF player_number \notin DOMAIN pwords THEN fr
        ELSE << Label("player", <<player_number>>, <<>>),
                Label("your_word_is", <<>>, <<>>),
                Label("word", <<>>, <<pwords[player_number]>>),
                Button(IF player_number < count[1]
                       THEN "next_player" ELSE "see_result",
                       "handle_word_next") >>

show_reveal_screen(fr, count, undercover, pair, pwords) ==
    IF count = None THEN fr
    ELSE << Label("reveal_title", <<>>, <<>>),
            Label("undercover_is_player", <<undercover + 1>>, <<>>) >>
         \o (IF pair # None
             THEN << Label("majority_minority", <<>>, pair) >>
             ELSE <<>>)
         \o << Label("players", [i \in 1..Len(pwords) |-> i], pwords),
               Button("next_round", "start_round"),
               Button("reset_player_count", "create_start_screen") >>

\* show_player_screen going to the reveal one player late (> for >=).
show_player_screen_late(fr, count, index, phase, undercover, pair, pwords) ==
    IF count = None THEN fr
    ELSE IF index > count[1]
         THEN show_reveal_screen(fr, count, undercover, pair, pwords)
    ELSE IF phase = "intro" THEN show_player_intro_screen(index)
    ELSE show_player_word_screen(fr, count, index, pwords)

\* show_player_screen going to the reveal one player early.
show_player_screen_early(fr, count, index, phase, undercover, pair, pwords) ==
    IF count = None THEN fr
    ELSE IF index >= count[1] - 1
         THEN show_reveal_screen(fr, count, undercover, pair, pwords)
    ELSE IF phase = "intro" THEN show_player_intro_screen(index)
    ELSE show_player_word_screen(fr, count, index, pwords)

show_player_screen(fr, count, index, phase, undercover, pair, pwords) ==
    IF count = None THEN fr
    ELSE IF index >= count[1]
         THEN show_reveal_screen(fr, count, undercover, pair, pwords)
    ELSE IF phase = "intro" THEN show_player_intro_screen(index)
    ELSE show_player_word_screen(fr, count, index, pwords)

\* ------------------------------------------------------------ initial state

RawLines ==
    { <<"a", ",", "b">>,            \* a,b
      <<"a", ",", "a">>,            \* a,a
      <<" ", "a", ",", "b">>,       \* leading blank
      <<"a", ",", " ", "b">>,       \* blank inside
      <<"a", ",", "b", ",">>,       \* empty third field
      <<"#", "a", ",", "b">>,       \* comment
      <<"a">> }                     \* one field

LineSeqs == UNION { [1..n -> RawLines] : n \in 0..MaxLines }

\* words.txt at startup: the lines, the last one with or without line break.
WordsTexts ==
    { Join(<<"\n">>, ls) \o end : ls \in LineSeqs, end \in {<<>>, <<"\n">>} }

\* words_used.txt at startup: empty, or holding a pair of an earlier run.
UsedTexts == { <<>>, <<"b", ",", "b", "\n">> }

Init ==
    /\ running = "init"
    /\ words_file_exists \in BOOLEAN
    /\ words_file \in (IF words_file_exists THEN WordsTexts ELSE {<<>>})
    /\ words_used_file \in UsedTexts
    /\ words = <<>>
    /\ player_count = None
    /\ current_player_index = 0
    /\ undercover_index = 0
    /\ player_words = <<>>
    /\ current_pair = None
    /\ player_phase = "intro"
    /\ frame = <<>>
    /\ messagebox = ""

round_state == <<player_count, current_player_index, undercover_index,
                 player_words, current_pair, player_phase>>

stores == <<words_file_exists, words_file, words_used_file, words>>

\* ---------------------------------------------------------------- operations

\* __init__ with a load_words that does not check for an empty pair list.
init_without_empty_check ==
    /\ running = "init"
    /\ IF ~words_file_exists
       THEN /\ messagebox' = "words_file_not_found"
            /\ running' = "exited"
            /\ UNCHANGED <<words, frame>>
       ELSE /\ words' = load_words(words_file)
            /\ frame' = start_screen
            /\ running' = "mainloop"
            /\ messagebox' = ""
    /\ UNCHANGED <<words_file_exists, words_file, words_used_file, round_state>>

\* WerewolfGameApp(root): load_words exits the process when words.txt is
\* missing or holds no valid pair; otherwise the start screen is shown.
\* The fields __init__ sets have these values in Init already.
__init__ ==
    /\ running = "init"
    /\ IF ~words_file_exists
       THEN /\ messagebox' = "words_file_not_found"
            /\ running' = "exited"
            /\ UNCHANGED <<words, frame>>
       ELSE IF load_words(words_file) = <<>>
       THEN /\ messagebox' = "no_valid_entries"
            /\ running' = "exited"
            /\ UNCHANGED <<words, frame>>
       ELSE /\ words' = load_words(words_file)
            /\ frame' = start_screen
            /\ running' = "mainloop"
            /\ messagebox' = ""
    /\ UNCHANGED <<words_file_exists, words_file, words_used_file, round_state>>

\* build_player_words with the undercover's entry one place too early.
build_player_words_off_by_one(count, undercover, majority_word, minority_word) ==
    [i \in 1..count |-> IF i = undercover THEN minority_word
                        ELSE majority_word]

\* [majority_word for _ in range(count)] with the undercover's entry replaced.
build_player_words(count, undercover, majority_word, minority_word) ==
    [i \in 1..count |-> IF i = undercover + 1 THEN minority_word
                        ELSE majority_word]

\* start_round with self.player_count = count; the caller says what
\* player_count becomes.
\* start_round resetting the sequencer and showing the first player's screen
\* before it looks at the pool.
start_round_shows_before_pool_check(count) ==
    IF count = None \/ count = Some(0)
    THEN /\ messagebox' = ""
         /\ UNCHANGED <<running, stores, current_player_index, undercover_index,
                        player_words, current_pair, player_phase, frame>>
    ELSE IF words = <<>>
    THEN /\ messagebox' = "pool_exhausted"
         /\ current_player_index' = 0
         /\ player_phase' = "intro"
         /\ frame' = show_player_screen(frame, count, 0, "intro",
                         undercover_index, current_pair, player_words)
         /\ UNCHANGED <<running, stores, undercover_index, player_words,
                        current_pair>>
    ELSE \E choice \in 1..Len(words), swap \in BOOLEAN,
            undercover \in 0..(count[1] - 1) :
            LET selected_pair == words[choice]
                majority_word == selected_pair[IF swap THEN 2 ELSE 1]
                minority_word == selected_pair[IF swap THEN 1 ELSE 2]
            IN  /\ current_player_index' = 0
                /\ player_phase' = "intro"
                /\ mark_word_used(selected_pair)
                /\ current_pair' = <<majority_word, minority_word>>
                /\ undercover_index' = undercover
                /\ player_words' = build_player_words(count[1], undercover,
                                       majority_word, minority_word)
                /\ frame' = show_player_screen(frame, count, 0, "intro",
                                undercover_index', current_pair', player_words')
                /\ messagebox' = ""
                /\ UNCHANGED running

\* start_round without the random swap of the two words.
start_round_without_swap(count) ==
    IF count = None \/ count = Some(0)
    THEN /\ messagebox' = ""
         /\ UNCHANGED <<running, stores, current_player_index, undercover_index,
                        player_words, current_pair, player_phase, frame>>
    ELSE IF words = <<>>
    THEN /\ messagebox' = "pool_exhausted"
         /\ UNCHANGED <<running, stores, current_player_index, undercover_index,
                        player_words, current_pair, player_phase, frame>>
    ELSE \E choice \in 1..Len(words), undercover \in 0..(count[1] - 1) :
            LET selected_pair == words[choice]
            IN  /\ current_player_index' = 0
                /\ player_phase' = "intro"
                /\ mark_word_used(selected_pair)
                /\ current_pair' = selected_pair
                /\ undercover_index' = undercover
                /\ player_words' = build_player_words(count[1], undercover,
                                       selected_pair[1], selected_pair[2])
                /\ frame' = show_player_screen(frame, count, 0, "intro",
                                undercover_index', current_pair', player_words')
                /\ messagebox' = ""
                /\ UNCHANGED running

start_round(count) ==
    IF count = None \/ count = Some(0)
    THEN /\ messagebox' = ""
         /\ UNCHANGED <<running, stores, current_player_index, undercover_index,
                        player_words, current_pair, player_phase, frame>>
    ELSE IF words = <<>>
    THEN /\ messagebox' = "pool_exhausted"
         /\ UNCHANGED <<running, stores, current_player_index, undercover_index,
                        player_words, current_pair, player_phase, frame>>
    ELSE \E choice \in 1..Len(words), swap \in BOOLEAN,
            undercover \in 0..(count[1] - 1) :
            LET selected_pair == words[choice]
                majority_word == selected_pair[IF swap THEN 2 ELSE 1]
                minority_word == selected_pair[IF swap THEN 1 ELSE 2]
            IN  /\ current_player_index' = 0
                /\ player_phase' = "intro"
                /\ mark_word_used(selected_pair)
                /\ current_pair' = <<majority_word, minority_word>>
                /\ undercover_index' = undercover
                /\ player_words' = build_player_words(count[1], undercover,
                                       majority_word, minority_word)
                /\ frame' = show_player_screen(frame, count, 0, "intro",
                                undercover_index', current_pair', player_words')
                /\ messagebox' = ""
                /\ UNCHANGED running

EntryChars == {"-", "0", "1", "2", "3", "4", "5", "x"}

\* What the user may have typed into player_entry: anything that is no
\* number, and the numbers up to MaxPlayers.
EntryValues ==
    { raw \in UNION { [1..n -> EntryChars] : n \in 0..MaxEntryLen } :
        int(raw) = None \/ int(raw)[1] <= MaxPlayers }

\* int(raw_value) for each of them: None where int raises ValueError.
EntryCounts == { int(raw_value) : raw_value \in EntryValues }

\* handle_start without the check count < 2.
handle_start_without_minimum ==
    /\ running = "mainloop"
    /\ ButtonShown("handle_start")
    /\ \E count \in EntryCounts :
            IF count = None
            THEN /\ messagebox' = "enter_a_number"
                 /\ UNCHANGED <<running, stores, round_state, frame>>
            ELSE /\ player_count' = count
                 /\ start_round(count)

\* The start screen's button.  player_entry is the entry of that screen, and
\* count is int(raw_value) of what it holds.
handle_start ==
    /\ running = "mainloop"
    /\ ButtonShown("handle_start")
    /\ \E count \in EntryCounts :
            IF count = None
            THEN /\ messagebox' = "enter_a_number"
                 /\ UNCHANGED <<running, stores, round_state, frame>>
            ELSE IF count[1] < 2
            THEN /\ messagebox' = "at_least_2_players"
                 /\ UNCHANGED <<running, stores, round_state, frame>>
            ELSE /\ player_count' = count
                 /\ start_round(count)

\* The reveal screen's next-round button: command=self.start_round.
next_round ==
    /\ running = "mainloop"
    /\ ButtonShown("start_round")
    /\ UNCHANGED player_count
    /\ start_round(player_count)

\* create_start_screen also putting the sequencer back to (0, intro).
create_start_screen_resets ==
    /\ running = "mainloop"
    /\ ButtonShown("create_start_screen")
    /\ frame' = start_screen
    /\ messagebox' = ""
    /\ current_player_index' = 0
    /\ player_phase' = "intro"
    /\ UNCHANGED <<running, stores, player_count, undercover_index,
                   player_words, current_pair>>

\* create_start_screen also reading the pool again from words.txt.
create_start_screen_reloads ==
    /\ running = "mainloop"
    /\ ButtonShown("create_start_screen")
    /\ frame' = start_screen
    /\ messagebox' = ""
    /\ words' = load_words(words_file)
    /\ UNCHANGED <<running, words_file_exists, words_file, words_used_file,
                   round_state>>

\* The reveal screen's reset button: command=self.create_start_screen.
create_start_screen ==
    /\ running = "mainloop"
    /\ ButtonShown("create_start_screen")
    /\ frame' = start_screen
    /\ messagebox' = ""
    /\ UNCHANGED <<running, stores, round_state>>

handle_intro_next ==
    /\ running = "mainloop"
    /\ ButtonShown("handle_intro_next")
    /\ player_phase' = "word"
    /\ frame' = show_player_screen(frame, player_count, current_player_index,
                    player_phase', undercover_index, current_pair, player_words)
    /\ messagebox' = ""
    /\ UNCHANGED <<running, stores, player_count, current_player_index,
                   undercover_index, player_words, current_pair>>

\* handle_word_next without the reset of player_phase to "intro".
handle_word_next_keeps_phase ==
    /\ running = "mainloop"
    /\ ButtonShown("handle_word_next")
    /\ current_player_index' = current_player_index + 1
    /\ frame' = show_player_screen(frame, player_count, current_player_index',
                    player_phase, undercover_index, current_pair, player_words)
    /\ messagebox' = ""
    /\ UNCHANGED <<running, stores, player_count, undercover_index,
                   player_words, current_pair, player_phase>>

handle_word_next ==
    /\ running = "mainloop"
    /\ ButtonShown("handle_word_next")
    /\ current_player_index' = current_player_index + 1
    /\ player_phase' = "intro"
    /\ frame' = show_player_screen(frame, player_count, current_player_index',
                    player_phase', undercover_index, current_pair, player_words)
    /\ messagebox' = ""
    /\ UNCHANGED <<running, stores, player_count, undercover_index,
                   player_words, current_pair>>

Next ==
    \/ __init__
    \/ handle_start
    \/ next_round
    \/ create_start_screen
    \/ handle_intro_next
    \/ handle_word_next

Spec == Init /\ [][Next]_vars

\* --------------------------------------------- a stop inside mark_word_used

\* start_round with the two writes in the other order, stopped between them:
\* the used line is appended and words.txt is not yet rewritten.
start_round_stops_append_first(count) ==
    /\ count # None /\ count # Some(0)
    /\ words # <<>>
    /\ \E choice \in 1..Len(words) :
          words_used_file' =
              words_used_file \o sanitized_line(words[choice]) \o <<"\n">>
    /\ current_player_index' = 0
    /\ player_phase' = "intro"
    /\ running' = "stopped"
    /\ UNCHANGED <<words_file, words_file_exists, words, undercover_index,
                   player_words, current_pair, frame, messagebox>>

\* start_round up to the point where the process stops (is killed, loses
\* power) inside mark_word_used, after WORDS_FILE.write_text and before the
\* append to WORDS_USED_FILE.
start_round_stops(count) ==
    /\ count # None /\ count # Some(0)
    /\ words # <<>>
    /\ \E choice \in 1..Len(words) :
          words_file' = write_text(new_lines(read_raw_lines,
                                             sanitized_line(words[choice])))
    /\ words_file_exists' = TRUE
    /\ current_player_index' = 0
    /\ player_phase' = "intro"
    /\ running' = "stopped"
    /\ UNCHANGED <<words_used_file, words, undercover_index, player_words,
                   current_pair, frame, messagebox>>

\* The start button pressed, the process stopping between the two writes.
handle_start_stops ==
    /\ running = "mainloop"
    /\ ButtonShown("handle_start")
    /\ \E count \in EntryCounts :
          /\ count # None
          /\ count[1] >= 2
          /\ player_count' = count
          /\ start_round_stops(count)

\* The next-round button pressed, the process stopping between the two writes.
next_round_stops ==
    /\ running = "mainloop"
    /\ ButtonShown("start_round")
    /\ UNCHANGED player_count
    /\ start_round_stops(player_count)

NextCrash ==
    \/ __init__
    \/ handle_start
    \/ next_round
    \/ create_start_screen
    \/ handle_intro_next
    \/ handle_word_next
    \/ handle_start_stops
    \/ next_round_stops

\* The application with stops of the process between the two writes.
SpecCrash == Init /\ [][NextCrash]_vars

\* ------------------------------------------ words.txt changed from outside

\* words.txt is deleted while the application runs; mark_word_used then
\* reads no lines (except FileNotFoundError: lines = []).
external_delete_file ==
    /\ running = "mainloop"
    /\ words_file_exists
    /\ words_file_exists' = FALSE
    /\ words_file' = <<>>
    /\ UNCHANGED <<running, words_used_file, words, round_state, frame,
                   messagebox>>

NextEdit ==
    \/ __init__
    \/ handle_start
    \/ next_round
    \/ create_start_screen
    \/ handle_intro_next
    \/ handle_word_next
    \/ external_delete_file

\* The application with words.txt deleted from outside between its steps.
SpecEdit == Init /\ [][NextEdit]_vars

\* ------------------------------------------------- a pool of two pairs

\* Texts of words.txt with two lines that load_words parses to two pairs:
\* different pairs in either order, the same pair twice, and a line that is
\* not in canonical form.
ChoiceTexts ==
    { <<"a", ",", "b", "\n", "a", ",", "a", "\n">>,
      <<"a", ",", "a", "\n", "a", ",", "b", "\n">>,
      <<"a", ",", "b", "\n", "a", ",", "b", "\n">>,
      <<"a", ",", " ", "b", "\n", "a", ",", "a">> }

InitChoice ==
    /\ Init
    /\ words_file \in ChoiceTexts
    /\ words_used_file = <<>>

\* The application started on a words.txt of two pairs and no words_used.txt.
SpecChoice == InitChoice /\ [][Next]_vars

\* ------------------------------------------------------- words used in claims

\* A step in which start_round went through: mark_word_used appended a line
\* to words_used.txt (no other code writes to that file).
round_started == words_used_file' # words_used_file

Range(seq) == { seq[i] : i \in 1..Len(seq) }

\* The pair start_round drew in that step: the pair of the pool whose
\* sanitized line is the line appended.
drawn_pair ==
    CHOOSE p \in Range(words) :
        words_used_file' = words_used_file \o sanitized_line(p) \o <<"\n">>

Count(seq, x) == Cardinality({ i \in 1..Len(seq) : seq[i] = x })

IntroShowing == ButtonShown("handle_intro_next")

WordShowing == ButtonShown("handle_word_next")

RevealShowing == ButtonShown("start_round")

StartShowing == ButtonShown("handle_start")

\* ------------------------------------------------------------------------ C1

\* C1 as stated: after every successful start_round, player_words has length
\* N, exactly one index holds the minority word current_pair[1], exactly N-1
\* indexes hold the majority word current_pair[0], and the index holding the
\* minority word is undercover_index.
C1_ExactlyOneMinority ==
    [][round_started =>
        /\ Len(player_words') = player_count'[1]
        /\ Count(player_words', current_pair'[2]) = 1
        /\ Count(player_words', current_pair'[1]) = player_count'[1] - 1
        /\ player_words'[undercover_index' + 1] = current_pair'[2]]_vars

\* C1 (amended): after every successful start_round with player count N,
\* player_words has length N, the entry at undercover_index is the minority
\* word and every other entry is the majority word; when the two words of
\* the pair differ, exactly one index holds the minority word and exactly
\* N-1 hold the majority word.
C1_UndercoverGetsMinority ==
    [][round_started =>
        /\ player_count'[1] >= 2
        /\ Len(player_words') = player_count'[1]
        /\ undercover_index' \in 0..(player_count'[1] - 1)
        /\ \A i \in 1..Len(player_words') :
              player_words'[i] = IF i = undercover_index' + 1
                                 THEN current_pair'[2] ELSE current_pair'[1]
        /\ current_pair'[1] # current_pair'[2] =>
              /\ Count(player_words', current_pair'[2]) = 1
              /\ Count(player_words', current_pair'[1]) = player_count'[1] - 1]_vars

\* A round has just been built for three players from a pair of two
\* different words, with the last player as the undercover.
C1_Witness ==
    /\ IntroShowing
    /\ current_player_index = 0
    /\ player_count = Some(3)
    /\ undercover_index = 2
    /\ current_pair # None
    /\ current_pair[1] # current_pair[2]
    /\ Len(player_words) = 3

\* ------------------------------------------------------------------------ C2

\* The proceed actions taken since the round started, read off the
\* sequencer state: two per player already passed, one more in phase word.
Proceeds ==
    2 * current_player_index + (IF player_phase = "word" THEN 1 ELSE 0)

\* C2: a round starts with no proceed taken; every proceed (the only steps
\* possible while an intro or word screen shows) adds exactly one; an intro
\* or word screen shows only after fewer than 2N proceeds, the reveal screen
\* only after exactly 2N, and on the reveal screen no proceed is available.
C2_RevealAfterExactly2N ==
    /\ [][round_started => Proceeds' = 0 /\ IntroShowing']_vars
    /\ [][(IntroShowing \/ WordShowing) => Proceeds' = Proceeds + 1]_vars
    /\ []((IntroShowing \/ WordShowing) => Proceeds < 2 * player_count[1])
    /\ [](RevealShowing =>
            /\ Proceeds = 2 * player_count[1]
            /\ ~ENABLED (handle_intro_next \/ handle_word_next))

\* The reveal screen of a three-player round, after six proceeds.
C2_Witness ==
    /\ RevealShowing
    /\ player_count = Some(3)
    /\ Proceeds = 6

\* ------------------------------------------------------------------------ C3

\* C3 as stated: once start_round has drawn and consumed a pair, that pair
\* is not in the pool any more, so that no later start_round can draw it.
C3_NeverDrawnAgain ==
    [][round_started => drawn_pair \notin Range(words')]_vars

\* C3 (amended): consuming a pair removes exactly one of its occurrences
\* from the pool and nothing else, and no step adds a pair to the pool: a
\* pair is drawn at most as often as it occurs in the loaded pool, and a
\* pair that occurs once is never drawn again.
C3_OneOccurrenceConsumed ==
    /\ [][round_started =>
            /\ Count(words, drawn_pair) >= 1
            /\ Count(words', drawn_pair) = Count(words, drawn_pair) - 1
            /\ \A p \in Range(words) \ {drawn_pair} :
                  Count(words', p) = Count(words, p)
            /\ Range(words') \subseteq Range(words)
            /\ Count(words, drawn_pair) = 1 => drawn_pair \notin Range(words')]_vars
    /\ [][(running = "mainloop" /\ words' # words) =>
            \A p \in Range(words') : Count(words', p) <= Count(words, p)]_vars

\* A pool that held the same pair twice, after one of the two was consumed.
C3_Witness ==
    /\ running = "mainloop"
    /\ current_pair # None
    /\ Len(words) = 1
    /\ sanitized_line(words[1]) \o <<"\n">> = words_used_file

\* ------------------------------------------------------------------------ C4

\* The pairs a store holds: its lines parsed the way load_words parses them.
AllPairs(texts) == UNION { Range(load_words(texts[i])) : i \in 1..Len(texts) }

\* C4: while the application runs, the pairs parsed from words.txt together
\* with the pairs in words_used.txt stay the same multiset in every step,
\* for every words.txt load_words accepts: a consumed pair moves from the
\* one store to the other, none is lost and none is in both.
C4_StoresPartitionPairs ==
    [][running = "mainloop" =>
        \A p \in AllPairs(<<words_file, words_file', words_used_file,
                            words_used_file'>>) :
            Count(load_words(words_file'), p)
              + Count(load_words(words_used_file'), p)
            = Count(load_words(words_file), p)
              + Count(load_words(words_used_file), p)]_vars

\* ------------------------------------------------------------------------ C5

\* The lines of words_used.txt (each ends with its line break): one for
\* every round started so far, after those the file held at startup.
UsedLines == Count(words_used_file, "\n")

ErrorMessages == {"enter_a_number", "at_least_2_players", "pool_exhausted"}

\* C5: every successful start_round takes exactly one pair out of the pool
\* and no other step changes the pool, so rounds started plus pairs left
\* stays the loaded k; with the pool empty every start is refused with the
\* pool-exhausted message, starts no round and changes no store; with pairs
\* left no start is refused for the pool: the next-round button starts a
\* round and the start button does unless the player count is rejected.
C5_OneRoundPerPair ==
    /\ [][running = "mainloop" =>
            /\ round_started =>
                  /\ Len(words') = Len(words) - 1
                  /\ UsedLines' = UsedLines + 1
            /\ ~round_started => words' = words]_vars
    /\ [][(running = "mainloop" /\ words = <<>>) =>
            /\ ~round_started
            /\ UNCHANGED <<stores, current_pair, player_words,
                           undercover_index>>
            /\ RevealShowing =>
                  \/ messagebox' = "pool_exhausted" /\ frame' = frame
                  \/ StartShowing'
            /\ StartShowing =>
                  /\ frame' = frame
                  /\ messagebox' \in ErrorMessages
                  /\ player_count' # player_count =>
                        messagebox' = "pool_exhausted"]_vars
    /\ [][(running = "mainloop" /\ words # <<>>) =>
            /\ messagebox' # "pool_exhausted"
            /\ RevealShowing => round_started \/ StartShowing'
            /\ StartShowing =>
                  \/ round_started
                  \/ /\ messagebox' \in {"enter_a_number", "at_least_2_players"}
                     /\ UNCHANGED round_state]_vars

\* The pool of a two-pair file is empty after two rounds, and the second
\* round's reveal screen has just refused a third.
C5_Witness ==
    /\ RevealShowing
    /\ words = <<>>
    /\ messagebox = "pool_exhausted"
    /\ UsedLines >= 2
    /\ Len(SplitLines(words_file)) = 0

\* ------------------------------------------------------------------------ C6

\* C6: a handler that ends in an error dialog (not a number, fewer than two
\* players, pool exhausted) leaves player_count, player_words, current_pair,
\* undercover_index, current_player_index and player_phase as they were.
C6_ErrorsKeepRoundState ==
    [][(running = "mainloop" /\ messagebox' \in ErrorMessages) =>
        UNCHANGED round_state]_vars

\* ------------------------------------------------------------------------ C7

\* C7: proceed from (i, intro) shows (i, word) with the index unchanged;
\* proceed from (i, word) shows (i+1, intro) if i+1 < N and the reveal
\* screen otherwise; a round starts at (0, intro); outside a round start the
\* index never goes down and never grows by more than one.
C7_StrictlyForward ==
    /\ [][IntroShowing =>
            /\ player_phase = "intro"
            /\ current_player_index' = current_player_index
            /\ player_phase' = "word"
            /\ WordShowing']_vars
    /\ [][WordShowing =>
            /\ player_phase = "word"
            /\ current_player_index' = current_player_index + 1
            /\ IF current_player_index + 1 < player_count[1]
               THEN IntroShowing' /\ player_phase' = "intro"
               ELSE RevealShowing']_vars
    /\ [][round_started =>
            /\ current_player_index' = 0
            /\ player_phase' = "intro"
            /\ IntroShowing']_vars
    /\ [][~round_started =>
            /\ current_player_index' >= current_player_index
            /\ current_player_index' <= current_player_index + 1
            /\ player_count' = player_count \/ StartShowing]_vars

\* The word screen of the second of three players.
C7_Witness ==
    /\ WordShowing
    /\ player_count = Some(3)
    /\ current_player_index = 1
    /\ player_phase = "word"

\* ------------------------------------------------------------------------ C8

\* The labels that make up the reveal summary.
SummaryTexts == {"undercover_is_player", "majority_minority", "players"}

Widgets == Range(frame)

\* C8: an intro screen shows no word at all and no number but the player's
\* own; a word screen shows one word, player_words[i] in its word label, no
\* number but the player's own and no label of the reveal summary.
C8_OnlyOwnWordShown ==
    /\ IntroShowing =>
          \A w \in Widgets :
              /\ w.words = <<>>
              /\ Range(w.nums) \subseteq {current_player_index + 1}
              /\ w.text \notin SummaryTexts \cup {"word"}
    /\ WordShowing =>
          /\ current_player_index + 1 \in DOMAIN player_words
          /\ \E w \in Widgets : w.text = "word"
          /\ \A w \in Widgets :
              /\ Range(w.nums) \subseteq {current_player_index + 1}
              /\ w.text \notin SummaryTexts
              /\ w.words = IF w.text = "word"
                           THEN <<player_words[current_player_index + 1]>>
                           ELSE <<>>

\* The second player's word screen, the first player being the undercover
\* of a pair of two different words.
C8_Witness ==
    /\ WordShowing
    /\ current_player_index = 1
    /\ undercover_index = 0
    /\ current_pair[1] # current_pair[2]

\* ------------------------------------------------------------------------ C9

\* The pair named by the last line of words_used.txt.
last_consumed ==
    LET used_lines == SplitLines(words_used_file)
    IN  Split(used_lines[Len(used_lines)], ",")

\* C9: a label of the reveal summary is in the frame only on the reveal
\* screen, and then current_player_index = player_count; the summary shows
\* undercover_index + 1, current_pair and all of player_words, and
\* current_pair is the pair last consumed, in one of the two orders.
C9_RevealOnlyAfterAllPlayers ==
    /\ (\E w \in Widgets : w.text \in SummaryTexts) => RevealShowing
    /\ RevealShowing =>
          /\ player_count # None
          /\ current_player_index = player_count[1]
          /\ \E w \in Widgets :
                w.text = "undercover_is_player" /\ w.nums = <<undercover_index + 1>>
          /\ \E w \in Widgets :
                w.text = "majority_minority" /\ w.words = current_pair
          /\ \E w \in Widgets :
                /\ w.text = "players"
                /\ w.words = player_words
                /\ w.nums = [i \in 1..player_count[1] |-> i]
          /\ current_pair \in {last_consumed,
                               <<last_consumed[2], last_consumed[1]>>}

\* The reveal screen of the second round played from one file.
C9_Witness ==
    /\ RevealShowing
    /\ UsedLines >= 2
    /\ words = <<>>
    /\ player_count = Some(2)

\* ----------------------------------------------------------------------- C10

\* C10: construction ends in sys.exit exactly when words.txt is missing or
\* holds no valid pair, and otherwise with a pool of at least one pair on
\* the start screen; after the exit nothing is shown, no round has been
\* started and nothing more happens.
C10_FatalWithoutPairs ==
    /\ [][running = "init" =>
            /\ running' = "exited" <=>
                  (~words_file_exists \/ load_words(words_file) = <<>>)
            /\ running' = "mainloop" =>
                  /\ words' = load_words(words_file)
                  /\ Len(words') >= 1
                  /\ StartShowing']_vars
    /\ [](running = "exited" =>
            /\ frame = <<>>
            /\ current_pair = None
            /\ words_used_file \in UsedTexts
            /\ messagebox \in {"words_file_not_found", "no_valid_entries"}
            /\ ~ENABLED Next)
    /\ [][running = "mainloop" => running' = "mainloop"]_vars

\* The process has exited on a words.txt that exists and holds lines, none
\* of them a valid pair.
C10_Witness ==
    /\ running = "exited"
    /\ words_file_exists
    /\ Len(SplitLines(words_file)) = 2
    /\ messagebox = "no_valid_entries"

\* ----------------------------------------------------------------------- C11

\* A step from the start or reveal screen to the first player's intro
\* screen: a round has been started.
round_entered ==
    /\ StartShowing \/ RevealShowing
    /\ IntroShowing'
    /\ current_player_index' = 0

\* C11: every step leaves the old text of words_used.txt as a prefix of the
\* new; a step that starts a round appends exactly one line, the sanitized
\* line of a pair of the pool with its fields in loaded order, whether
\* current_pair has them in that order or exchanged; no other step writes
\* to the file.
C11_UsedStoreAppendOnly ==
    /\ [][/\ Len(words_used_file') >= Len(words_used_file)
          /\ SubSeq(words_used_file', 1, Len(words_used_file)) = words_used_file]_vars
    /\ [][round_entered =>
            \E p \in Range(words) :
                /\ words_used_file' =
                      words_used_file \o sanitized_line(p) \o <<"\n">>
                /\ Count(sanitized_line(p), "\n") = 0
                /\ current_pair' \in {p, <<p[2], p[1]>>}]_vars
    /\ [][~round_entered => words_used_file' = words_used_file]_vars

\* After the line of an earlier run, words_used.txt holds "a,b" for a round
\* that is played with b as the majority word and a as the minority word.
C11_Witness ==
    /\ IntroShowing
    /\ words_used_file = <<"b", ",", "b", "\n", "a", ",", "b", "\n">>
    /\ current_pair = << <<"b">>, <<"a">> >>

\* ----------------------------------------------------------------------- C12

\* A step that ends with the process stopped between the two writes.
stopped_between == running = "mainloop" /\ running' = "stopped"

\* The lines of words.txt before a step.
active_pairs == load_words(Join(<<"\n">>, read_raw_lines))

\* C12 as stated: a stop of the process between the two writes of
\* mark_word_used leaves the pair being consumed in words.txt and in
\* words_used.txt.
C12_StopLeavesPairInBoth ==
    [][stopped_between =>
        \E p \in Range(words) :
            /\ words_file' = write_text(new_lines(read_raw_lines,
                                                  sanitized_line(p)))
            /\ p \in Range(load_words(words_file'))
            /\ words_used_file' # words_used_file
            /\ p \in Range(load_words(words_used_file'))]_vars

\* C12 (amended): mark_word_used is not atomic, and a stop of the process
\* between its two writes never leaves the consumed occurrence in both
\* stores: words_used.txt is as it was, no pair has more occurrences in the
\* two stores together than before, and if a line of words.txt matched the
\* pair, that line is gone, so that the occurrence is in neither store; if
\* none matched, the lines of words.txt are as they were.
C12_StopLosesPair ==
    [][stopped_between =>
        /\ words_used_file' = words_used_file
        /\ \A q \in Range(active_pairs) \cup Range(load_words(words_file')) :
              Count(load_words(words_file'), q) <= Count(active_pairs, q)
        /\ \E p \in Range(words) :
              /\ words_file' = write_text(new_lines(read_raw_lines,
                                                    sanitized_line(p)))
              /\ IF \E i \in 1..Len(read_raw_lines) :
                        Strip(read_raw_lines[i]) = sanitized_line(p)
                 THEN Count(load_words(words_file'), p)
                        = Count(active_pairs, p) - 1
                 ELSE SplitLines(words_file') = read_raw_lines]_vars

\* The process has stopped with the only pair loaded in neither file.
C12_Witness ==
    /\ running = "stopped"
    /\ Len(words) = 1
    /\ words_file = <<>>
    /\ words_used_file = <<>>

\* ----------------------------------------------------------------------- C13

\* A round starts and no line of words.txt matches the drawn pair.
consume_without_match ==
    /\ round_started
    /\ \A i \in 1..Len(read_raw_lines) :
          Strip(read_raw_lines[i]) # sanitized_line(drawn_pair)

\* C13 as stated: when no line of words.txt matches, its lines are left as
\* they were and a missing file stays missing, while one occurrence of the
\* pair leaves self.words.
C13_NoMatchKeepsFileAsItWas ==
    [][consume_without_match =>
        /\ SplitLines(words_file') = read_raw_lines
        /\ words_file_exists' = words_file_exists
        /\ Count(words', drawn_pair) = Count(words, drawn_pair) - 1
        /\ Len(words') = Len(words) - 1]_vars

\* C13 (amended): when no line of words.txt matches the pair's canonical
\* form, words.txt is still written: it holds the lines it had, in their
\* order, and a missing file is created empty; one occurrence of the pair
\* leaves self.words.
C13_NoMatchRewritesSameLines ==
    [][consume_without_match =>
        /\ SplitLines(words_file') = read_raw_lines
        /\ words_file' = write_text(read_raw_lines)
        /\ words_file_exists'
        /\ Count(words', drawn_pair) = Count(words, drawn_pair) - 1
        /\ Len(words') = Len(words) - 1]_vars

\* A round has started after words.txt was deleted: the file is there again,
\* empty, while self.words still holds a pair, and the drawn pair is in
\* words_used.txt.
C13_Witness ==
    /\ IntroShowing
    /\ words_file_exists
    /\ words_file = <<>>
    /\ words_used_file = <<"a", ",", "b", "\n">>
    /\ words # <<>>

\* ----------------------------------------------------------------------- C14

\* C14: after every consume self.words is the sequence of pairs load_words
\* would parse from words.txt as it then is, for every words.txt load_words
\* accepts, lines that are not in canonical form included.
C14_PoolEqualsParsedFile ==
    [][round_started => words' = load_words(words_file')]_vars

\* ----------------------------------------------------------------------- C15

\* A step into the sequencer state (0, intro): the fields take that value
\* from another one, or the intro screen of player 0 comes up.
enters_0_intro ==
    /\ current_player_index' = 0
    /\ player_phase' = "intro"
    /\ \/ <<current_player_index, player_phase>> # <<0, "intro">>
       \/ IntroShowing' /\ ~IntroShowing

\* C15: while the application runs, (0, intro) is entered only by a
\* successful start_round; every successful start_round, from the start
\* screen or from the reveal screen, enters it showing the intro screen of
\* player 0, with the player count of that round (from the reveal screen:
\* the count unchanged), a pair drawn from the pool and consumed, and
\* player_words rebuilt for that pair and count; no other step sets
\* current_player_index back to 0.
C15_EnteredOnlyByStartRound ==
    /\ [][(running = "mainloop" /\ enters_0_intro) => round_started]_vars
    /\ [][round_started =>
            /\ StartShowing \/ RevealShowing
            /\ enters_0_intro
            /\ IntroShowing'
            /\ player_count' # None
            /\ RevealShowing => player_count' = player_count
            /\ drawn_pair \in Range(words)
            /\ Count(words', drawn_pair) = Count(words, drawn_pair) - 1
            /\ current_pair' \in {drawn_pair, <<drawn_pair[2], drawn_pair[1]>>}
            /\ player_words' = build_player_words(player_count'[1],
                   undercover_index', current_pair'[1], current_pair'[2])]_vars
    /\ [][(~round_started /\ current_player_index' = 0) =>
            current_player_index = 0]_vars

\* A second round has been entered, with three players, at (0, intro).
C15_Witness ==
    /\ IntroShowing
    /\ current_player_index = 0
    /\ player_phase = "intro"
    /\ player_count = Some(3)
    /\ Len(player_words) = 3
    /\ words_used_file = <<"a", ",", "b", "\n", "a", ",", "a", "\n">>

\* ----------------------------------------------------------------------- C16

\* The two orders in which a pair can be put in play.
orders(p) == {p, <<p[2], p[1]>>}

\* A round can start with this pair drawn, in this order, this undercover
\* and (from the start screen) this count.
can_start(count, p, pair, undercover) ==
    ENABLED (/\ words_used_file' = words_used_file \o sanitized_line(p) \o <<"\n">>
             /\ player_count' = count
             /\ current_pair' = pair
             /\ undercover_index' = undercover
             /\ handle_start \/ next_round)

\* C16: in every round current_pair is the pair drawn and consumed for it or
\* its swap, and undercover_index lies in [0, player_count); and whenever a
\* round can be started, every choice is a possible outcome: each pair of
\* the pool, each of its two orders and each index in [0, player_count).
C16_EveryChoicePossible ==
    /\ [][round_started =>
            /\ current_pair' \in orders(drawn_pair)
            /\ Count(words', drawn_pair) = Count(words, drawn_pair) - 1
            /\ undercover_index' \in 0..(player_count'[1] - 1)]_vars
    /\ []((running = "mainloop" /\ words # <<>>) =>
            \A p \in Range(words) : \A pair \in orders(p) :
                /\ StartShowing =>
                      \A n \in 2..MaxPlayers : \A u \in 0..(n - 1) :
                          can_start(Some(n), p, pair, u)
                /\ RevealShowing =>
                      \A u \in 0..(player_count[1] - 1) :
                          can_start(player_count, p, pair, u))

\* A round in which the second pair of the pool was drawn, put in play
\* swapped, with the middle one of three players as the undercover.
C16_Witness ==
    /\ IntroShowing
    /\ current_player_index = 0
    /\ player_count = Some(3)
    /\ undercover_index = 1
    /\ current_pair = << <<"b">>, <<"a">> >>
    /\ words = << << <<"a">>, <<"a">> >> >>
    /\ words_used_file = <<"a", ",", "b", "\n">>

\* ----------------------------------------------------------------------- C17

\* C17: in every reachable state player_count is None or an integer >= 2;
\* it is changed only by the start button, to an entered integer >= 2, and
\* not when the input is rejected; and every round is started (a pair drawn
\* and consumed) with player_count set and >= 2.
C17_CountUnsetOrAtLeast2 ==
    /\ [](player_count = None \/ player_count[1] >= 2)
    /\ [][player_count' # player_count =>
            /\ StartShowing
            /\ player_count' \in EntryCounts \ {None}
            /\ player_count'[1] >= 2
            /\ messagebox' \notin {"enter_a_number", "at_least_2_players"}]_vars
    /\ [][(round_started \/ current_pair' # current_pair) =>
            /\ player_count' # None
            /\ player_count'[1] >= 2
            /\ RevealShowing => player_count' = player_count]_vars

\* Back on the start screen after a round of two players, a count below 2
\* has been entered and rejected: player_count is still 2.
C17_Witness ==
    /\ StartShowing
    /\ messagebox = "at_least_2_players"
    /\ player_count = Some(2)
    /\ current_pair # None

\* ----------------------------------------------------------------------- C18

\* C18: whenever a player intro or word screen shows, player_count is set,
\* player_words has player_count entries and current_player_index is in
\* [0, player_count), so that player_words[current_player_index] exists and
\* is the word the word screen shows; this holds after any sequence of
\* rounds, resets, rejected inputs and refused starts on an empty pool.
C18_ReadInBounds ==
    (running = "mainloop" /\ (IntroShowing \/ WordShowing)) =>
        /\ player_count # None
        /\ Len(player_words) = player_count[1]
        /\ current_player_index \in 0..(player_count[1] - 1)
        /\ current_player_index + 1 \in DOMAIN player_words
        /\ WordShowing =>
              frame = show_player_word_screen(frame, player_count,
                          current_player_index, player_words)

\* The word screen of the last of three players, in a round started after a
\* round of two players and with the pool now empty.
C18_Witness ==
    /\ WordShowing
    /\ player_count = Some(3)
    /\ current_player_index = 2
    /\ Len(player_words) = 3
    /\ words = <<>>
    /\ UsedLines >= 2

\* ----------------------------------------------------------------------- C19

\* C19: while the application runs, self.words, words.txt and
\* words_used.txt are changed only by a successful start_round; the proceed
\* steps, the reset to the start screen, a rejected input and a start
\* refused on an empty pool leave all three as they were, and the proceed
\* steps also leave player_words, current_pair, undercover_index and
\* player_count as they were.
C19_OnlyStartRoundChangesStores ==
    /\ [][(running = "mainloop" /\ stores' # stores) =>
            /\ round_started
            /\ StartShowing \/ RevealShowing
            /\ IntroShowing'
            /\ messagebox' = ""]_vars
    /\ [][(IntroShowing \/ WordShowing) =>
            UNCHANGED <<stores, player_words, current_pair, undercover_index,
                        player_count>>]_vars
    /\ [][(RevealShowing /\ StartShowing') => UNCHANGED stores]_vars
    /\ [][messagebox' \in ErrorMessages =>
            UNCHANGED <<stores, player_words, current_pair,
                        undercover_index>>]_vars

\* After a round and the reset to the start screen, a start with three
\* players has been refused on the empty pool: the pair of the round is
\* still the only line of words_used.txt.
C19_Witness ==
    /\ StartShowing
    /\ messagebox = "pool_exhausted"
    /\ player_count = Some(3)
    /\ Len(player_words) = 2
    /\ words = <<>>
    /\ words_file = <<>>
    /\ words_used_file = <<"a", ",", "b", "\n">>

====
